---- MODULE Spec2Model ----
(***************************************************************************)
(* noderowallet: a typed client of the Monero wallet JSON-RPC interface.   *)
(*                                                                         *)
(* Text (request payloads, response bodies, messages) is modelled as TLA+  *)
(* strings, read character by character with Len, SubSeq and \o.  A        *)
(* JavaScript value is a record [t, s, m]: t its type, s its text (the     *)
(* characters of a string, the decimal rendering of a number or bigint,    *)
(* "true"/"false"), m its members (an object's <<key, value>> entries in   *)
(* insertion order, an array's elements).                                  *)
(***************************************************************************)
EXTENDS Integers, Sequences, FiniteSets, TLC

(***************************************************************************)
(* Characters                                                              *)
(***************************************************************************)
Char(str, i) == SubSeq(str, i, i)

Digits == {"0", "1", "2", "3", "4", "5", "6", "7", "8", "9"}

\* The characters at which . stops and $ (flag m) matches.
LineTerminators == {"\n", "\r"}

\* JSON insignificant whitespace.
WhiteSpace == {" ", "\t", "\n", "\r"}

AtEndOfLine(str, p) == p = Len(str) + 1 \/ Char(str, p) \in LineTerminators

\* The first position from i on whose character is not in set (the end of
\* the text when there is none).
FirstNotIn(str, i, set) ==
    LET stop(j) == j > Len(str) \/ Char(str, j) \notin set
    IN  IF stop(i) THEN i
        ELSE CHOOSE j \in (i + 1)..(Len(str) + 1) :
                stop(j) /\ \A k \in (i + 1)..(j - 1) : ~stop(k)

\* The first position from i on whose character is in set (the end of the
\* text when there is none).
FirstIn(str, i, set) ==
    LET stop(j) == j > Len(str) \/ Char(str, j) \in set
    IN  IF stop(i) THEN i
        ELSE CHOOSE j \in (i + 1)..(Len(str) + 1) :
                stop(j) /\ \A k \in (i + 1)..(j - 1) : ~stop(k)

\* The end (exclusive) of the maximal run of digits starting at i.
DigitRunEnd(str, i) == FirstNotIn(str, i, Digits)

(***************************************************************************)
(* Characters and bytes.  A text is a string of characters and what goes   *)
(* over the wire is a string of bytes; an ASCII character and its byte are *)
(* written alike.  Two characters outside ASCII are written with           *)
(* stand-ins, and so are their bytes and the replacement character.        *)
(***************************************************************************)
EAcute == "&"       \* U+00E9
Omega == "%"        \* U+03A9
Replacement == "?"  \* U+FFFD
ByteC3 == "@"
ByteCE == "^"
ByteA9 == "#"
ByteE9 == "~"

NonAscii == {EAcute, Omega}
LeadBytes == {ByteC3, ByteCE}
HighBytes == {ByteC3, ByteCE, ByteA9, ByteE9}

\* The UTF-8 bytes of a text: C3 A9 for U+00E9, CE A9 for U+03A9.
RECURSIVE Utf8Encode(_, _)
Utf8Encode(text, i) ==
    LET p == FirstIn(text, i, NonAscii)
    IN  IF p > Len(text) THEN SubSeq(text, i, Len(text))
        ELSE SubSeq(text, i, p - 1)
                \o (IF Char(text, p) = EAcute THEN ByteC3 ELSE ByteCE)
                \o ByteA9 \o Utf8Encode(text, p + 1)

\* Buffer.byteLength(text): the number of its UTF-8 bytes.
Utf8Length(text) == Len(Utf8Encode(text, 1))

\* The bytes a 'binary' (latin1) write makes of a text: of every character
\* the low byte of its code, E9 for U+00E9 and A9 for U+03A9.
RECURSIVE Latin1Encode(_, _)
Latin1Encode(text, i) ==
    LET p == FirstIn(text, i, NonAscii)
    IN  IF p > Len(text) THEN SubSeq(text, i, Len(text))
        ELSE SubSeq(text, i, p - 1)
                \o (IF Char(text, p) = EAcute THEN ByteE9 ELSE ByteA9)
                \o Latin1Encode(text, p + 1)

\* buffer.toString(): the text of bytes read as UTF-8.  A lead byte and its
\* continuation make their character; a byte of a sequence that is not
\* whole makes the replacement character.
RECURSIVE Utf8Decode(_, _)
Utf8Decode(bytes, i) ==
    LET p == FirstIn(bytes, i, HighBytes)
        whole == /\ Char(bytes, p) \in LeadBytes
                 /\ p < Len(bytes)
                 /\ Char(bytes, p + 1) = ByteA9
    IN  IF p > Len(bytes) THEN SubSeq(bytes, i, Len(bytes))
        ELSE SubSeq(bytes, i, p - 1)
                \o (IF whole
                    THEN (IF Char(bytes, p) = ByteC3 THEN EAcute ELSE Omega)
                    ELSE Replacement)
                \o Utf8Decode(bytes, IF whole THEN p + 2 ELSE p + 1)

BufferToString(bytes) == Utf8Decode(bytes, 1)

(***************************************************************************)
(* stringifyInts: json.replaceAll(                                         *)
(*     /(?<=".+?": )(\d+)(?=,?[^0-9]?$)/gm, '"$1n"')                       *)
(***************************************************************************)
\* (?<=".+?": ) just before position i: a quote, one or more characters of
\* the same line, then quote, colon, space.
LookBehind(json, i) ==
    /\ i > 5
    /\ Char(json, i - 1) = " "
    /\ Char(json, i - 2) = ":"
    /\ Char(json, i - 3) = "\""
    /\ \E k \in 1..(i - 5) :
          /\ Char(json, k) = "\""
          /\ \A j \in (k + 1)..(i - 4) : Char(json, j) \notin LineTerminators

\* LookAhead that lets every run of digits end a match.
LookAheadAny(json, j) == TRUE

\* (?=,?[^0-9]?$) at position j: an optional comma, an optional character
\* that is no digit, then the end of a line.
LookAhead(json, j) ==
    \E comma \in {0, 1}, other \in {0, 1} :
        /\ comma = 1 => (j <= Len(json) /\ Char(json, j) = ",")
        /\ other = 1 => /\ j + comma <= Len(json)
                        /\ Char(json, j + comma) \notin Digits
        /\ AtEndOfLine(json, j + comma + other)

\* The end (exclusive) of the match of (\d+) that starts at i, 0 when the
\* expression does not match at i.  \d+ is greedy and backtracks.
MatchEnd(json, i) ==
    IF i <= Len(json) /\ Char(json, i) \in Digits /\ LookBehind(json, i)
    THEN LET ends == {j \in (i + 1)..DigitRunEnd(json, i) : LookAhead(json, j)}
         IN  IF ends = {} THEN 0
             ELSE CHOOSE j \in ends : \A e \in ends : e <= j
    ELSE 0

\* The text from i on with every match replaced by "$1n" in quotes; the
\* matches are found left to right and do not overlap.
RECURSIVE ReplaceFrom(_, _)
ReplaceFrom(json, i) ==
    LET starts == {p \in i..Len(json) : MatchEnd(json, p) # 0}
    IN  IF starts = {} THEN SubSeq(json, i, Len(json))
        ELSE LET p == CHOOSE q \in starts : \A r \in starts : q <= r
                 e == MatchEnd(json, p)
             IN  SubSeq(json, i, p - 1) \o "\"" \o SubSeq(json, p, e - 1)
                    \o "n\"" \o ReplaceFrom(json, e)

stringifyInts(json) == ReplaceFrom(json, 1)

(***************************************************************************)
(* JavaScript values                                                       *)
(***************************************************************************)
Undefined == [t |-> "undefined", s |-> "", m |-> <<>>]
Null == [t |-> "null", s |-> "", m |-> <<>>]
Bool(b) == [t |-> "boolean", s |-> IF b THEN "true" ELSE "false", m |-> <<>>]
Num(text) == [t |-> "number", s |-> text, m |-> <<>>]
Big(text) == [t |-> "bigint", s |-> text, m |-> <<>>]
Str(text) == [t |-> "string", s |-> text, m |-> <<>>]
Obj(members) == [t |-> "object", s |-> "", m |-> members]
Arr(elements) == [t |-> "array", s |-> "", m |-> elements]

\* obj[key] (obj.key): the value of the last member named key.
HasKey(obj, key) ==
    obj.t = "object" /\ \E i \in 1..Len(obj.m) : obj.m[i][1] = key

Get(obj, key) ==
    IF HasKey(obj, key)
    THEN obj.m[CHOOSE i \in 1..Len(obj.m) : obj.m[i][1] = key][2]
    ELSE Undefined

\* obj[key] = value: an existing key keeps its place, a new one is appended.
SetMember(members, key, value) ==
    IF \E i \in 1..Len(members) : members[i][1] = key
    THEN [i \in 1..Len(members) |->
            IF members[i][1] = key THEN <<key, value>> ELSE members[i]]
    ELSE Append(members, <<key, value>>)

(***************************************************************************)
(* Decimal digit strings: a Number holds 53 bits of an integer, a BigInt   *)
(* all of them.                                                            *)
(***************************************************************************)
DigitString == "0123456789"

DigitVal(c) == (CHOOSE i \in 1..10 : Char(DigitString, i) = c) - 1

DigitChar(n) == Char(DigitString, n + 1)

\* a <= b for digit strings of equal length.
RECURSIVE DigitsLeq(_, _)
DigitsLeq(a, b) ==
    IF Len(a) = 0 THEN TRUE
    ELSE IF Head(a) = Head(b) THEN DigitsLeq(Tail(a), Tail(b))
    ELSE DigitVal(Head(a)) < DigitVal(Head(b))

\* a <= b for digit strings without leading zeros.
NatLeq(a, b) == Len(a) < Len(b) \/ (Len(a) = Len(b) /\ DigitsLeq(a, b))

RECURSIVE StripZeros(_)
StripZeros(d) ==
    IF Len(d) > 1 /\ Head(d) = "0" THEN StripZeros(Tail(d)) ELSE d

\* d + 1 on digit strings.
RECURSIVE Increment(_)
Increment(d) ==
    IF Len(d) = 0 THEN "1"
    ELSE LET init == SubSeq(d, 1, Len(d) - 1)
             last == DigitVal(Char(d, Len(d)))
         IN  IF last = 9 THEN Increment(init) \o "0"
             ELSE init \o DigitChar(last + 1)

\* 2^53 and 2^54: up to the first every integer is a double, up to the second
\* every even one.
TwoTo53 == "9007199254740992"
TwoTo54 == "18014398509481984"

\* The double nearest to the integer d (ties to the even mantissa), rendered
\* in decimal.  Above 2^54 the rendering is marked inexact.
DoubleOfNat(d) ==
    IF NatLeq(d, TwoTo53) THEN d
    ELSE IF NatLeq(d, TwoTo54)
    THEN LET n == Len(d)
             last == DigitVal(Char(d, n))
             mod4 == (10 * DigitVal(Char(d, n - 1)) + last) % 4
         IN  IF last % 2 = 0 THEN d
             ELSE IF mod4 = 1 THEN SubSeq(d, 1, n - 1) \o DigitChar(last - 1)
             ELSE Increment(d)
    ELSE "~" \o d

\* BigInt(text) of a string of digits.
BigInt(d) == Big(StripZeros(d))

(***************************************************************************)
(* JSON.parse(text, reviver)                                               *)
(***************************************************************************)
\* A parse step gives the value and the position after it, or fails.
Parsed(value, next) == [ok |-> TRUE, v |-> value, p |-> next]
SyntaxError == [ok |-> FALSE, v |-> Undefined, p |-> 0]

SkipWs(text, i) == FirstNotIn(text, i, WhiteSpace)

\* The end (exclusive) of the number literal at i, 0 when there is none:
\* -? (0 | [1-9][0-9]*) (. [0-9]+)? ([eE] [+-]? [0-9]+)?
NumberEnd(text, i) ==
    LET at(p) == IF p <= Len(text) THEN Char(text, p) ELSE ""
        a == IF at(i) = "-" THEN i + 1 ELSE i
        b == IF at(a) = "0" THEN a + 1 ELSE DigitRunEnd(text, a)
        c == IF at(b) = "." THEN DigitRunEnd(text, b + 1) ELSE b
        d == IF at(c) \in {"e", "E"}
             THEN IF at(c + 1) \in {"+", "-"} THEN c + 2 ELSE c + 1
             ELSE c
        e == IF d > c THEN DigitRunEnd(text, d) ELSE c
    IN  IF b = a \/ (c > b /\ c = b + 1) \/ (d > c /\ e = d) THEN 0 ELSE e

\* The Number a literal denotes.  Fractions and exponents are kept as
\* written: the model's bodies hold them in their shortest form.
ToNumber(lit) ==
    IF \A i \in 1..Len(lit) : Char(lit, i) \in Digits
    THEN DoubleOfNat(lit)
    ELSE IF Head(lit) = "-" /\ \A i \in 2..Len(lit) : Char(lit, i) \in Digits
    THEN "-" \o DoubleOfNat(Tail(lit))
    ELSE lit

Unescape(c) ==
    CASE c = "\"" -> "\""
      [] c = "\\" -> "\\"
      [] c = "/" -> "/"
      [] c = "n" -> "\n"
      [] c = "r" -> "\r"
      [] c = "t" -> "\t"
      [] OTHER -> ""

\* The characters of the string literal whose opening quote is before i:
\* plain characters up to p, where the closing quote, an escape, or a
\* control character (which a string may not hold) stands.
RECURSIVE ScanString(_, _, _)

ScanTo(text, p, plain) ==
    IF p > Len(text) THEN SyntaxError
    ELSE IF Char(text, p) = "\"" THEN Parsed(Str(plain), p + 1)
    ELSE IF Char(text, p) = "\\"
    THEN IF p + 1 > Len(text) \/ Unescape(Char(text, p + 1)) = ""
         THEN SyntaxError
         ELSE ScanString(text, p + 2, plain \o Unescape(Char(text, p + 1)))
    ELSE SyntaxError

ScanPlain(text, i, p, acc) == ScanTo(text, p, acc \o SubSeq(text, i, p - 1))

ScanString(text, i, acc) ==
    ScanPlain(text, i, FirstIn(text, i, {"\"", "\\", "\n", "\r", "\t"}), acc)

RECURSIVE ParseValue(_, _)
RECURSIVE ParseMembers(_, _, _)
RECURSIVE ParseElements(_, _, _)

\* An object's members are parsed one step at a time, each step an operator
\* that is handed what the steps before it found: the key, the colon, the
\* value, then a comma or the closing brace.
AfterMember(text, sep, members) ==
    IF sep > Len(text) THEN SyntaxError
    ELSE IF Char(text, sep) = "}" THEN Parsed(Obj(members), sep + 1)
    ELSE IF Char(text, sep) = ","
    THEN ParseMembers(text, SkipWs(text, sep + 1), members)
    ELSE SyntaxError

AfterMemberValue(text, name, val, acc) ==
    IF ~val.ok THEN SyntaxError
    ELSE AfterMember(text, SkipWs(text, val.p), SetMember(acc, name, val.v))

AfterColon(text, name, colon, acc) ==
    IF colon > Len(text) \/ Char(text, colon) # ":" THEN SyntaxError
    ELSE AfterMemberValue(text, name,
                          ParseValue(text, SkipWs(text, colon + 1)), acc)

AfterKey(text, key, acc) ==
    IF ~key.ok THEN SyntaxError
    ELSE AfterColon(text, key.v.s, SkipWs(text, key.p), acc)

\* The members of an object from the key at i on.
ParseMembers(text, i, acc) ==
    IF i > Len(text) \/ Char(text, i) # "\"" THEN SyntaxError
    ELSE AfterKey(text, ScanString(text, i + 1, ""), acc)

\* An array's elements likewise: the value, then a comma or the bracket.
AfterElement(text, sep, elements) ==
    IF sep > Len(text) THEN SyntaxError
    ELSE IF Char(text, sep) = "]" THEN Parsed(Arr(elements), sep + 1)
    ELSE IF Char(text, sep) = ","
    THEN ParseElements(text, SkipWs(text, sep + 1), elements)
    ELSE SyntaxError

AfterElementValue(text, val, acc) ==
    IF ~val.ok THEN SyntaxError
    ELSE AfterElement(text, SkipWs(text, val.p), Append(acc, val.v))

\* The elements of an array from the value at i on.
ParseElements(text, i, acc) == AfterElementValue(text, ParseValue(text, i), acc)

\* The number literal from i to e (exclusive); e = 0: there is none.
NumberLiteral(text, i, e) ==
    IF e = 0 THEN SyntaxError
    ELSE Parsed(Num(ToNumber(SubSeq(text, i, e - 1))), e)

\* The value that starts with the character c at i; first is the position
\* of what follows c and white space.
ValueAt(text, i, c, first) ==
    LET word(n) == IF i + n - 1 <= Len(text)
                   THEN SubSeq(text, i, i + n - 1)
                   ELSE ""
    IN  CASE c = "{" ->
                IF first <= Len(text) /\ Char(text, first) = "}"
                THEN Parsed(Obj(<<>>), first + 1)
                ELSE ParseMembers(text, first, <<>>)
          [] c = "[" ->
                IF first <= Len(text) /\ Char(text, first) = "]"
                THEN Parsed(Arr(<<>>), first + 1)
                ELSE ParseElements(text, first, <<>>)
          [] c = "\"" -> ScanString(text, i + 1, "")
          [] c = "-" \/ c \in Digits ->
                NumberLiteral(text, i, NumberEnd(text, i))
          [] word(4) = "true" -> Parsed(Bool(TRUE), i + 4)
          [] word(5) = "false" -> Parsed(Bool(FALSE), i + 5)
          [] word(4) = "null" -> Parsed(Null, i + 4)
          [] OTHER -> SyntaxError

ParseValue(text, i) ==
    IF i > Len(text) THEN SyntaxError
    ELSE ValueAt(text, i, Char(text, i), SkipWs(text, i + 1))

\* The whole text is one value, or the parse throws SyntaxError.
WholeText(text, val) ==
    IF val.ok /\ SkipWs(text, val.p) = Len(text) + 1 THEN val ELSE SyntaxError

ParseText(text) == WholeText(text, ParseValue(text, SkipWs(text, 1)))

\* v.match(/(\d+)n/): the first run of digits that an n follows, "" when
\* there is none (a run is never empty).
RECURSIVE MatchDigitsN(_, _)

\* The run of digits from b to e (exclusive), or the next one.
DigitsThenN(v, b, e) ==
    IF b > Len(v) THEN ""
    ELSE IF e <= Len(v) /\ Char(v, e) = "n" THEN SubSeq(v, b, e - 1)
    ELSE MatchDigitsN(v, e)

RunFrom(v, b) == DigitsThenN(v, b, DigitRunEnd(v, b))

MatchDigitsN(v, i) == RunFrom(v, FirstIn(v, i, Digits))

\* Promote with the capture taken one character short.
PromoteShort(v, digits) ==
    IF Len(digits) > 1 THEN BigInt(SubSeq(digits, 1, Len(digits) - 1)) ELSE v

\* if (m?.[1] != null) return BigInt(m[1]); return v
Promote(v, digits) == IF digits # "" THEN BigInt(digits) ELSE v

\* The reviver handed to JSON.parse: (k, v) => ...
reviver(v) ==
    IF v.t = "string" THEN Promote(v, MatchDigitsN(v.s, 1)) ELSE v

\* JSON.parse's walk: the reviver on every member and element, innermost
\* first, then on the value itself.
RECURSIVE Revive(_)
Revive(v) ==
    CASE v.t = "object" ->
            reviver(Obj([i \in 1..Len(v.m) |->
                            <<v.m[i][1], Revive(v.m[i][2])>>]))
      [] v.t = "array" ->
            reviver(Arr([i \in 1..Len(v.m) |-> Revive(v.m[i])]))
      [] OTHER -> reviver(v)

Revived(val) == IF val.ok THEN Parsed(Revive(val.v), val.p) ELSE SyntaxError

JSONparse(text) == Revived(ParseText(text))

\* The decoding of a response body: JSON.parse(stringifyInts(rawData), ...).
Decode(rawData) == JSONparse(stringifyInts(rawData))

(***************************************************************************)
(* Errors.  An error is a record: name its class, message its text, code   *)
(* and errorMessage the fields MoneroRpcError declares (Undefined when not *)
(* set).                                                                   *)
(***************************************************************************)
NoError == [name |-> "", message |-> "", code |-> Undefined,
            errorMessage |-> Undefined]

\* MoneroRpcError with the code looked at before the message.
MoneroRpcErrorCodeFirst(response) ==
    LET isObject == response.t \in {"object", "array"}
        hasMessage == /\ isObject
                      /\ HasKey(response, "message")
                      /\ Get(response, "message").t = "string"
        hasCode == /\ isObject
                   /\ HasKey(response, "code")
                   /\ Get(response, "code").t = "number"
    IN  [name |-> "MoneroRpcError",
         message |->
            IF response.t = "string" THEN response.s
            ELSE IF hasCode THEN "Code " \o Get(response, "code").s
            ELSE IF hasMessage THEN Get(response, "message").s
            ELSE "Unknown error",
         code |-> IF hasCode THEN Get(response, "code") ELSE Undefined,
         errorMessage |->
            IF hasMessage THEN Get(response, "message") ELSE Undefined]

\* new MoneroRpcError(response)
MoneroRpcError(response) ==
    LET isObject == response.t \in {"object", "array"}
        hasMessage == /\ isObject
                      /\ HasKey(response, "message")
                      /\ Get(response, "message").t = "string"
        hasCode == /\ isObject
                   /\ HasKey(response, "code")
                   /\ Get(response, "code").t = "number"
    IN  [name |-> "MoneroRpcError",
         message |->
            IF response.t = "string" THEN response.s
            ELSE IF hasMessage THEN Get(response, "message").s
            ELSE IF hasCode THEN "Code " \o Get(response, "code").s
            ELSE "Unknown error",
         code |-> IF hasCode THEN Get(response, "code") ELSE Undefined,
         errorMessage |->
            IF hasMessage THEN Get(response, "message") ELSE Undefined]

\* What JSON.stringify throws at a BigInt.
BigIntTypeError ==
    [name |-> "TypeError", message |-> "Do not know how to serialize a BigInt",
     code |-> Undefined, errorMessage |-> Undefined]

\* What ok(value) throws at a falsy value.
AssertionError ==
    [name |-> "AssertionError",
     message |-> "The expression evaluated to a falsy value",
     code |-> Str("ERR_ASSERTION"), errorMessage |-> Undefined]

\* What JSON.parse throws at a text that is no JSON.
JsonSyntaxError ==
    [name |-> "SyntaxError", message |-> "Unexpected token in JSON",
     code |-> Undefined, errorMessage |-> Undefined]

\* What data.error throws when data is null.
NullTypeError ==
    [name |-> "TypeError", message |-> "Cannot read properties of null",
     code |-> Undefined, errorMessage |-> Undefined]

\* The errors the transport emits on the request and on the response.
ConnectionRefused ==
    [name |-> "Error", message |-> "connect ECONNREFUSED",
     code |-> Str("ECONNREFUSED"), errorMessage |-> Undefined]

ConnectionReset ==
    [name |-> "Error", message |-> "aborted",
     code |-> Str("ECONNRESET"), errorMessage |-> Undefined]

\* ok(value) passes: value is truthy.
Truthy(v) ==
    CASE v.t \in {"undefined", "null"} -> FALSE
      [] v.t = "boolean" -> v.s = "true"
      [] v.t \in {"number", "bigint"} -> v.s \notin {"0", "-0"}
      [] v.t = "string" -> v.s # ""
      [] OTHER -> TRUE

(***************************************************************************)
(* JSON.stringify(value)                                                   *)
(***************************************************************************)
\* A BigInt somewhere in what is serialized: JSON.stringify throws.
RECURSIVE HoldsBigInt(_)
HoldsBigInt(v) ==
    CASE v.t = "bigint" -> TRUE
      [] v.t = "object" -> \E i \in 1..Len(v.m) : HoldsBigInt(v.m[i][2])
      [] v.t = "array" -> \E i \in 1..Len(v.m) : HoldsBigInt(v.m[i])
      [] OTHER -> FALSE

\* The string literal of text: quotes and backslashes escaped.
RECURSIVE Quote(_, _)
Quote(text, i) ==
    LET p == FirstIn(text, i, {"\"", "\\"})
    IN  IF p > Len(text) THEN SubSeq(text, i, Len(text))
        ELSE SubSeq(text, i, p - 1) \o "\\" \o Char(text, p)
                \o Quote(text, p + 1)

QuoteString(text) == "\"" \o Quote(text, 1) \o "\""

RECURSIVE Stringify(_)
RECURSIVE StringifyMembers(_, _, _)
RECURSIVE StringifyElements(_, _)

\* The members from the i-th on; sep is "" until a member has been written.
\* StringifyMembers that writes null for a member whose value is undefined.
StringifyMembersNull(m, i, sep) ==
    IF i > Len(m) THEN ""
    ELSE sep \o QuoteString(m[i][1]) \o ":"
            \o (IF m[i][2].t = "undefined" THEN "null" ELSE Stringify(m[i][2]))
            \o StringifyMembers(m, i + 1, ",")

\* The members from the i-th on; sep is "" until a member has been written.
\* A member whose value is undefined is left out.
StringifyMembers(m, i, sep) ==
    IF i > Len(m) THEN ""
    ELSE IF m[i][2].t = "undefined" THEN StringifyMembers(m, i + 1, sep)
    ELSE sep \o QuoteString(m[i][1]) \o ":" \o Stringify(m[i][2])
            \o StringifyMembers(m, i + 1, ",")

\* An element that is undefined is written null.
StringifyElements(m, i) ==
    IF i > Len(m) THEN ""
    ELSE (IF i > 1 THEN "," ELSE "")
            \o (IF m[i].t = "undefined" THEN "null" ELSE Stringify(m[i]))
            \o StringifyElements(m, i + 1)

\* The JSON text of a value that holds no BigInt.
Stringify(v) ==
    CASE v.t = "object" -> "{" \o StringifyMembers(v.m, 1, "") \o "}"
      [] v.t = "array" -> "[" \o StringifyElements(v.m, 1) \o "]"
      [] v.t = "string" -> QuoteString(v.s)
      [] v.t = "null" -> "null"
      [] OTHER -> v.s

\* JSON.stringify(value): the text, or the TypeError thrown.
JSONstringify(v) ==
    IF HoldsBigInt(v)
    THEN [ok |-> FALSE, text |-> "", error |-> BigIntTypeError]
    ELSE [ok |-> TRUE, text |-> Stringify(v), error |-> NoError]

(***************************************************************************)
(* The public operations: each names the remote method and binds its       *)
(* arguments to the keys of the parameter bag.                             *)
(***************************************************************************)
\* The i-th argument, undefined when the caller left it out.
Arg(args, i) == IF i <= Len(args) THEN args[i] ELSE Undefined

getBalance(args) ==
    [method |-> "get_balance",
     params |-> Obj(<< <<"account_index", Arg(args, 1)>>,
                       <<"address_indices", Arg(args, 2)>>,
                       <<"all_accounts", Arg(args, 3)>>,
                       <<"strict", Arg(args, 4)>> >>)]

createAddress(args) ==
    [method |-> "create_address",
     params |-> Obj(<< <<"account_index", Arg(args, 1)>>,
                       <<"label", Arg(args, 2)>>,
                       <<"count", Arg(args, 3)>> >>)]

labelAddress(args) ==
    [method |-> "label_address",
     params |-> Obj(<< <<"index", Arg(args, 1)>>,
                       <<"label", Arg(args, 2)>> >>)]

setDaemon(args) ==
    [method |-> "set_daemon",
     params |-> Obj(<< <<"address", Arg(args, 1)>>,
                       <<"trusted", Arg(args, 2)>>,
                       <<"ssl_support", Arg(args, 3)>>,
                       <<"ssl_private_key_path", Arg(args, 4)>>,
                       <<"ssl_certificate_path", Arg(args, 5)>>,
                       <<"ssl_ca_file", Arg(args, 6)>>,
                       <<"ssl_allowed_fingerprints", Arg(args, 7)>>,
                       <<"ssl_allow_any_cert", Arg(args, 8)>>,
                       <<"username", Arg(args, 9)>>,
                       <<"password", Arg(args, 10)>> >>)]

getHeight(args) == [method |-> "get_height", params |-> Obj(<<>>)]

\* getTransfers with its first argument under the key of its own name.
getTransfersInn(args) ==
    [method |-> "get_transfers",
     params |-> Obj(<< <<"inn", Arg(args, 1)>>,
                       <<"out", Arg(args, 2)>>,
                       <<"pending", Arg(args, 3)>>,
                       <<"failed", Arg(args, 4)>>,
                       <<"pool", Arg(args, 5)>>,
                       <<"filter_by_height", Arg(args, 6)>>,
                       <<"min_height", Arg(args, 7)>>,
                       <<"max_height", Arg(args, 8)>>,
                       <<"account_index", Arg(args, 9)>>,
                       <<"subaddr_indices", Arg(args, 10)>>,
                       <<"all_accounts", Arg(args, 11)>> >>)]

getTransfers(args) ==
    [method |-> "get_transfers",
     params |-> Obj(<< <<"in", Arg(args, 1)>>,
                       <<"out", Arg(args, 2)>>,
                       <<"pending", Arg(args, 3)>>,
                       <<"failed", Arg(args, 4)>>,
                       <<"pool", Arg(args, 5)>>,
                       <<"filter_by_height", Arg(args, 6)>>,
                       <<"min_height", Arg(args, 7)>>,
                       <<"max_height", Arg(args, 8)>>,
                       <<"account_index", Arg(args, 9)>>,
                       <<"subaddr_indices", Arg(args, 10)>>,
                       <<"all_accounts", Arg(args, 11)>> >>)]

Operation(op, args) ==
    CASE op = "getBalance" -> getBalance(args)
      [] op = "createAddress" -> createAddress(args)
      [] op = "labelAddress" -> labelAddress(args)
      [] op = "setDaemon" -> setDaemon(args)
      [] op = "getHeight" -> getHeight(args)
      [] op = "getTransfers" -> getTransfers(args)

\* The request body: JSON.stringify({ jsonrpc: '2.0', id: '0', method, params })
Payload(method, params) ==
    JSONstringify(Obj(<< <<"jsonrpc", Str("2.0")>>,
                         <<"id", Str("0")>>,
                         <<"method", Str(method)>>,
                         <<"params", params>> >>))

(***************************************************************************)
(* The remote side: what the wallet RPC server may answer.  A response     *)
(* body is the JSON text of a value, written in one of three layouts.      *)
(***************************************************************************)
\* "compact": no white space (JSON.stringify).  "spaced": one line, a space
\* after every colon and comma.  "pretty": monero-wallet-rpc's own layout,
\* every member on a line of its own, a space after the colon.
Layouts == {"compact", "spaced", "pretty"}

RECURSIVE Spaces(_)
Spaces(n) == IF n = 0 THEN "" ELSE " " \o Spaces(n - 1)

RECURSIVE Render(_, _, _)
RECURSIVE RenderMembers(_, _, _, _)
RECURSIVE RenderElements(_, _, _, _)

RenderMembers(m, i, layout, indent) ==
    IF i > Len(m) THEN ""
    ELSE (IF layout = "pretty" THEN "\n" \o Spaces(indent + 2) ELSE "")
            \o QuoteString(m[i][1])
            \o (IF layout = "compact" THEN ":" ELSE ": ")
            \o Render(m[i][2], layout, indent + 2)
            \o (IF i = Len(m) THEN ""
                ELSE IF layout = "spaced" THEN ", " ELSE ",")
            \o RenderMembers(m, i + 1, layout, indent)

RenderElements(m, i, layout, indent) ==
    IF i > Len(m) THEN ""
    ELSE Render(m[i], layout, indent)
            \o (IF i = Len(m) THEN ""
                ELSE IF layout = "spaced" THEN ", " ELSE ",")
            \o RenderElements(m, i + 1, layout, indent)

Render(v, layout, indent) ==
    CASE v.t = "object" ->
            IF Len(v.m) = 0 THEN "{}"
            ELSE "{" \o RenderMembers(v.m, 1, layout, indent)
                    \o (IF layout = "pretty"
                        THEN "\n" \o Spaces(indent) ELSE "")
                    \o "}"
      [] v.t = "array" -> "[" \o RenderElements(v.m, 1, layout, indent) \o "]"
      [] v.t = "string" -> QuoteString(v.s)
      [] v.t = "null" -> "null"
      [] OTHER -> v.s

\* The address of the README's usage example.
ReadmeAddress ==
    "52R4RNjVjPn6Aj3SVA1yzZQStC8a4StYTUiuAtLjBPk92A76vrCD2pcPmV51Td8X56Gb1smNTaiEadc4gurjQ5nJBUuVCFB"

BalanceResult ==
    Obj(<< <<"balance", Num("1125125151521")>>,
           <<"unlocked_balance", Num("1125125151521")>>,
           <<"multisig_import_needed", Bool(FALSE)>>,
           <<"per_subaddress",
             Arr(<< Obj(<< <<"balance", Num("1125125151521")>> >>) >>)>> >>)

SubaddressResult ==
    Obj(<< <<"per_subaddress",
             Arr(<< Obj(<< <<"account_index", Num("0")>>,
                           <<"address", Str(ReadmeAddress)>>,
                           <<"label", Str("Primary account")>>,
                           <<"num_unspent_outputs", Num("1")>> >>) >>)>>,
           <<"time_to_unlock", Num("0")>> >>)

HeightResult == Obj(<< <<"height", Num("9007199254740993")>> >>)

TransferSplitResult ==
    Obj(<< <<"tx_hash_list", Arr(<<Str("4adcdc1af3f6")>>)>>,
           <<"amount_list", Arr(<<Num("1"), Num("2"), Num("3")>>)>>,
           <<"fee_list", Arr(<<Num("9007199254740993")>>)>>,
           <<"multisig_txset", Str("")>> >>)

NoteResult ==
    Obj(<< <<"notes", Arr(<<Str("rent 2024"), Str("")>>)>>,
           <<"rate", Num("1.5")>>,
           <<"delta", Num("-3")>> >>)

\* Strings that are digits and the letter n, whole.
MarkerResult ==
    Obj(<< <<"label", Str("123n")>>,
           <<"address_index", Num("123")>>,
           <<"notes", Arr(<<Str("0n")>>)>> >>)

\* Booleans, and numbers written with a fraction or an exponent.
ReportResult ==
    Obj(<< <<"height", Num("7")>>,
           <<"rate", Num("1.5")>>,
           <<"fee", Num("2.5e-3")>>,
           <<"scale", Num("1E5")>>,
           <<"exact", Bool(TRUE)>>,
           <<"ratios", Arr(<<Num("0.25"), Bool(FALSE)>>)>>,
           <<"last", Num("10.0")>> >>)

\* A label with a character outside ASCII.
LabelResult ==
    Obj(<< <<"label", Str("caf" \o EAcute)>>, <<"address_index", Num("1")>> >>)

\* A result with negative integers, small and beyond 2^53, and a string in
\* the marker form with leading zeros.
LedgerResult ==
    Obj(<< <<"delta", Num("-5")>>,
           <<"drift", Num("-9007199254740993")>>,
           <<"serial", Str("007n")>>,
           <<"height", Num("7")>> >>)

Results ==
    {BalanceResult, SubaddressResult, HeightResult, TransferSplitResult,
     NoteResult, MarkerResult, ReportResult, LabelResult, LedgerResult,
     Obj(<<>>), Bool(FALSE), Num("0"), Str("")}

ErrorObject(code, message) ==
    Obj(<< <<"code", Num(code)>>, <<"message", Str(message)>> >>)

Errors ==
    {ErrorObject(code, "denied") : code \in {"-1", "0", "7"}}
        \cup {ErrorObject("-13", "2nd attempt failed"),
              Obj(<< <<"code", Num("-1")>> >>),
              Obj(<< <<"message", Str("denied")>> >>),
              Obj(<<>>), Str("denied"), Null,
              Str(""), Obj(<< <<"message", Str("")>> >>), Bool(TRUE),
              Obj(<< <<"code", Str("-1")>>, <<"message", Num("-1")>> >>)}

Header == << <<"jsonrpc", Str("2.0")>>, <<"id", Str("0")>> >>

\* The envelopes: a result, an error, both, or neither.
Envelopes ==
    {Obj(Header \o << <<"result", r>> >>) : r \in Results}
        \cup {Obj(Header \o << <<"error", e>> >>) : e \in Errors}
        \cup {Obj(Header \o << <<"result", Obj(<<>>)>>, <<"error", e>> >>) :
                e \in {ErrorObject("-1", "denied"), Null}}
        \cup {Obj(Header)}

\* Bodies that are no JSON text: an empty body, a proxy's page, and bodies
\* cut off before their end.
RawBodies ==
    {"", "<html>502 Bad Gateway</html>",
     "{\"jsonrpc\":\"2.0\",\"id\":\"0\",\"result\":{\"balance\":11251",
     "{\n  \"id\": \"0\",\n  \"jsonrpc\": \"2.0\",\n  \"result\": {\n    \"balance\": 1125125151521"}

\* res.statusCode: a number, or undefined.
StatusCodes ==
    {Undefined, Num("199"), Num("200"), Num("299"), Num("300"), Num("500")}

\* What the callers ask for.
Invocations ==
    {[op |-> "getBalance", args |-> <<>>],
     [op |-> "createAddress",
      args |-> <<Num("0"), Str("savings"), Undefined>>],
     [op |-> "createAddress", args |-> <<Num("0"), Str("savings"), Big("2")>>],
     [op |-> "labelAddress",
      args |-> <<Obj(<< <<"major", Big("0")>>, <<"minor", Big("1")>> >>),
                 Str("rent")>>]}

\* The wallets that are constructed: new NoderoWallet({ host, port }).
Configs ==
    {[host |-> "127.0.0.1", port |-> 38090],
     [host |-> "127.0.0.1", port |-> 6000]}

\* The most 'data' events of one response.
MaxChunks == 2

(***************************************************************************)
(* The dispatcher: NoderoWallet.request                                    *)
(***************************************************************************)
VARIABLES
    config,     \* this.host, this.port
    pc,         \* where each call is: idle, sent, receiving, closed, done
    invocation, \* the operation each call invoked, and its arguments
    request,    \* the HTTP request each call issued
    response,   \* the response each call received: statusCode, envelope, body
    offset,     \* how much of the body has arrived
    chunks,     \* how many 'data' events there were
    rawData,    \* the closure's rawData
    fired,      \* the events that fired: reqError, resError, end
    parsed,     \* JSON.parse was called on rawData
    uncaught,   \* what a handler threw
    promise     \* the promise the caller holds

vars == <<config, pc, invocation, request, response, offset, chunks, rawData,
          fired, parsed, uncaught, promise>>

\* The calls a wallet serves, and the one Spec has in flight.
Calls == {1, 2}
Sequential == {1}

Pending == [state |-> "pending", value |-> Undefined, error |-> NoError,
            by |-> ""]

NoRequest == [host |-> "", port |-> 0, method |-> "", path |-> "",
              contentType |-> "", contentLength |-> 0, body |-> "",
              written |-> ""]

NoResponse == [statusCode |-> Undefined, envelope |-> Undefined, body |-> ""]

\* resolve(value) and reject(error): the first one settles the promise.
Resolve(p, value, handler) ==
    IF p.state = "pending"
    THEN [state |-> "resolved", value |-> value, error |-> NoError,
          by |-> handler]
    ELSE p

\* Reject on a promise that forgets it was settled.
RejectAgain(p, error, handler) ==
    [state |-> "rejected", value |-> Undefined, error |-> error,
     by |-> handler]

Reject(p, error, handler) ==
    IF p.state = "pending"
    THEN [state |-> "rejected", value |-> Undefined, error |-> error,
          by |-> handler]
    ELSE p

\* Buffer.byteLength(payload)
ByteLength(text) == Utf8Length(text)

\* StatusOk without the test statusCode > 299.
StatusOkNoUpperBound(statusCode) ==
    statusCode.t = "number" /\ NatLeq("200", statusCode.s)

\* statusCode == null || statusCode < 200 || statusCode > 299, negated.
StatusOk(statusCode) ==
    /\ statusCode.t = "number"
    /\ NatLeq("200", statusCode.s)
    /\ NatLeq(statusCode.s, "299")

\* `RPC call failed with status code ${statusCode}`
StatusMessage(statusCode) ==
    "RPC call failed with status code "
        \o (IF statusCode.t = "undefined" THEN "undefined" ELSE statusCode.s)

\* What the 'end' handler does with the status and the accumulated body:
\* it resolves, rejects, or throws.
Resolved(value) ==
    [kind |-> "resolve", value |-> value, error |-> NoError, parsed |-> TRUE]
Rejected(error, didParse) ==
    [kind |-> "reject", value |-> Undefined, error |-> error,
     parsed |-> didParse]
Thrown(error) ==
    [kind |-> "throw", value |-> Undefined, error |-> error, parsed |-> TRUE]

\* Deliver without ok(data.result).
DeliverUnchecked(result) == Resolved(result)

\* ok(data.result); resolve(data.result)
Deliver(result) ==
    IF Truthy(result) THEN Resolved(result) ELSE Thrown(AssertionError)

\* Dispatch with the result looked at before the error.
DispatchResultFirst(error, result) ==
    IF Truthy(result) THEN Resolved(result)
    ELSE IF error.t \notin {"null", "undefined"}
    THEN Rejected(MoneroRpcError(error), TRUE)
    ELSE Thrown(AssertionError)

\* if (data.error != null) return reject(new MoneroRpcError(data.error))
Dispatch(error, result) ==
    IF error.t \notin {"null", "undefined"}
    THEN Rejected(MoneroRpcError(error), TRUE)
    ELSE Deliver(result)

\* data is what JSON.parse returned, unless it threw.
OnData(data) ==
    IF ~data.ok THEN Thrown(JsonSyntaxError)
    ELSE IF data.v.t = "null" THEN Thrown(NullTypeError)
    ELSE Dispatch(Get(data.v, "error"), Get(data.v, "result"))

OnEnd(statusCode, raw) ==
    IF StatusOk(statusCode)
    THEN OnData(Decode(raw))
    ELSE Rejected(MoneroRpcError(Str(StatusMessage(statusCode))), FALSE)

Init ==
    /\ config \in Configs
    /\ pc = [c \in Calls |-> "idle"]
    /\ invocation = [c \in Calls |-> [op |-> "", args |-> <<>>]]
    /\ request = [c \in Calls |-> NoRequest]
    /\ response = [c \in Calls |-> NoResponse]
    /\ offset = [c \in Calls |-> 0]
    /\ chunks = [c \in Calls |-> 0]
    /\ rawData = [c \in Calls |-> ""]
    /\ fired = [c \in Calls |-> {}]
    /\ parsed = [c \in Calls |-> FALSE]
    /\ uncaught = [c \in Calls |-> NoError]
    /\ promise = [c \in Calls |-> Pending]

RequestPayload(call) == Payload(call.method, call.params)

\* this.request(method, params): the request is written and ended, unless
\* JSON.stringify threw.
Send(c, payload) ==
    IF payload.ok
    THEN /\ request' = [request EXCEPT ![c] =
                [host |-> config.host, port |-> config.port,
                 method |-> "POST", path |-> "/json_rpc",
                 contentType |-> "text/json",
                 contentLength |-> ByteLength(payload.text),
                 body |-> payload.text,
                 written |-> Latin1Encode(payload.text, 1)]]
         /\ pc' = [pc EXCEPT ![c] = "sent"]
         /\ UNCHANGED promise
    ELSE /\ promise' = [promise EXCEPT ![c] =
                Reject(@, payload.error, "request")]
         /\ pc' = [pc EXCEPT ![c] = "done"]
         /\ UNCHANGED request

\* A caller invokes an operation: the payload is serialized and the request
\* written and ended, or JSON.stringify throws and the async method rejects.
Invoke(c, inv) ==
    /\ pc[c] = "idle"
    /\ invocation' = [invocation EXCEPT ![c] = inv]
    /\ Send(c, RequestPayload(Operation(inv.op, inv.args)))
    /\ UNCHANGED <<config, response, offset, chunks, rawData, fired, parsed,
                   uncaught>>

\* The response arrives: the callback sets rawData = '' and its listeners.
Respond(c, statusCode, envelope, layout) ==
    /\ pc[c] = "sent"
    /\ pc' = [pc EXCEPT ![c] = "receiving"]
    /\ response' = [response EXCEPT ![c] =
            [statusCode |-> statusCode, envelope |-> envelope,
             body |-> Utf8Encode(Render(envelope, layout, 0), 1)]]
    /\ rawData' = [rawData EXCEPT ![c] = ""]
    /\ UNCHANGED <<config, invocation, request, offset, chunks, fired, parsed,
                   uncaught, promise>>

\* The response arrives with a body that is no rendering of an envelope.
RespondRaw(c, statusCode, body) ==
    /\ pc[c] = "sent"
    /\ pc' = [pc EXCEPT ![c] = "receiving"]
    /\ response' = [response EXCEPT ![c] =
            [statusCode |-> statusCode, envelope |-> Undefined, body |-> body]]
    /\ rawData' = [rawData EXCEPT ![c] = ""]
    /\ UNCHANGED <<config, invocation, request, offset, chunks, fired, parsed,
                   uncaught, promise>>

\* Data with the chunk put before what has arrived: rawData = chunk + rawData.
DataPrepend(c, n) ==
    /\ pc[c] = "receiving"
    /\ fired[c] \cap {"end", "resError"} = {}
    /\ chunks[c] < MaxChunks
    /\ n \in 1..(Len(response[c].body) - offset[c])
    /\ n = Len(response[c].body) - offset[c] \/ chunks[c] + 1 < MaxChunks
    /\ rawData' = [rawData EXCEPT ![c] =
            BufferToString(SubSeq(response[c].body, offset[c] + 1,
                                  offset[c] + n)) \o @]
    /\ offset' = [offset EXCEPT ![c] = @ + n]
    /\ chunks' = [chunks EXCEPT ![c] = @ + 1]
    /\ UNCHANGED <<config, pc, invocation, request, response, fired, parsed,
                   uncaught, promise>>

\* Data with rawData declared outside the response callback: one buffer
\* that every call appends to.
DataShared(c, n) ==
    /\ pc[c] = "receiving"
    /\ fired[c] \cap {"end", "resError"} = {}
    /\ chunks[c] < MaxChunks
    /\ n \in 1..(Len(response[c].body) - offset[c])
    /\ n = Len(response[c].body) - offset[c] \/ chunks[c] + 1 < MaxChunks
    /\ rawData' = [d \in Calls |->
            rawData[d] \o BufferToString(SubSeq(response[c].body, offset[c] + 1,
                                          offset[c] + n))]
    /\ offset' = [offset EXCEPT ![c] = @ + n]
    /\ chunks' = [chunks EXCEPT ![c] = @ + 1]
    /\ UNCHANGED <<config, pc, invocation, request, response, fired, parsed,
                   uncaught, promise>>

\* res 'data': rawData += chunk, the next n bytes of the body.
Data(c, n) ==
    /\ pc[c] = "receiving"
    /\ fired[c] \cap {"end", "resError"} = {}
    /\ chunks[c] < MaxChunks
    /\ n \in 1..(Len(response[c].body) - offset[c])
    /\ n = Len(response[c].body) - offset[c] \/ chunks[c] + 1 < MaxChunks
    /\ rawData' = [rawData EXCEPT ![c] =
            @ \o BufferToString(SubSeq(response[c].body, offset[c] + 1,
                                 offset[c] + n))]
    /\ offset' = [offset EXCEPT ![c] = @ + n]
    /\ chunks' = [chunks EXCEPT ![c] = @ + 1]
    /\ UNCHANGED <<config, pc, invocation, request, response, fired, parsed,
                   uncaught, promise>>

\* What the 'end' handler did reaches the promise, or is thrown.
Outcome(c, out) ==
    /\ parsed' = [parsed EXCEPT ![c] = out.parsed]
    /\ promise' = [promise EXCEPT ![c] =
            CASE out.kind = "resolve" -> Resolve(@, out.value, "end")
              [] out.kind = "reject" -> Reject(@, out.error, "end")
              [] OTHER -> @]
    /\ uncaught' = [uncaught EXCEPT ![c] =
            IF out.kind = "throw" THEN out.error ELSE @]

\* res 'end': the whole body has arrived.
End(c) ==
    /\ pc[c] = "receiving"
    /\ "end" \notin fired[c]
    /\ offset[c] = Len(response[c].body)
    /\ fired' = [fired EXCEPT ![c] = @ \cup {"end"}]
    /\ Outcome(c, OnEnd(response[c].statusCode, rawData[c]))
    /\ UNCHANGED <<config, pc, invocation, request, response, offset, chunks,
                   rawData>>

\* ResError without its listener: the failure reaches nobody.
ResErrorUnheard(c) ==
    /\ pc[c] = "receiving"
    /\ "resError" \notin fired[c]
    /\ fired' = [fired EXCEPT ![c] = @ \cup {"resError"}]
    /\ UNCHANGED <<config, pc, invocation, request, response, offset, chunks,
                   rawData, parsed, uncaught, promise>>

\* res 'error': reject(e).
ResError(c) ==
    /\ pc[c] = "receiving"
    /\ "resError" \notin fired[c]
    /\ fired' = [fired EXCEPT ![c] = @ \cup {"resError"}]
    /\ promise' = [promise EXCEPT ![c] = Reject(@, ConnectionReset, "resError")]
    /\ UNCHANGED <<config, pc, invocation, request, response, offset, chunks,
                   rawData, parsed, uncaught>>

\* req 'error': reject(e).  Before the response, no response follows.
ReqError(c) ==
    /\ pc[c] \in {"sent", "receiving"}
    /\ "reqError" \notin fired[c]
    /\ fired' = [fired EXCEPT ![c] = @ \cup {"reqError"}]
    /\ promise' = [promise EXCEPT ![c] =
            Reject(@, ConnectionRefused, "reqError")]
    /\ pc' = [pc EXCEPT ![c] = IF @ = "sent" THEN "closed" ELSE @]
    /\ UNCHANGED <<config, invocation, request, response, offset, chunks,
                   rawData, parsed, uncaught>>

\* The sizes the transport cuts the rest of a body into: all of it, its
\* first character, or its first half.
ChunkSizes(rest) == {n \in {1, rest \div 2, rest} : n >= 1}

\* The size of the chunk from offset from that ends inside the next
\* character of more than one byte, when there is one.
CutSizes(bytes, from) ==
    {p - from : p \in {FirstIn(bytes, from + 1, LeadBytes)} \ {Len(bytes) + 1}}

Next ==
    \E c \in Sequential :
        \/ \E inv \in Invocations : Invoke(c, inv)
        \/ \E statusCode \in StatusCodes, envelope \in Envelopes,
              layout \in Layouts : Respond(c, statusCode, envelope, layout)
        \/ \E statusCode \in StatusCodes, body \in RawBodies :
                RespondRaw(c, statusCode, body)
        \/ \E n \in ChunkSizes(Len(response[c].body) - offset[c]) : Data(c, n)
        \/ \E n \in CutSizes(response[c].body, offset[c]) : Data(c, n)
        \/ End(c)
        \/ ResError(c)
        \/ ReqError(c)

Spec == Init /\ [][Next]_vars

\* End(c) can happen.
EndIsDue(c) ==
    /\ pc[c] = "receiving"
    /\ "end" \notin fired[c]
    /\ offset[c] = Len(response[c].body)

\* The runtime delivers what the response holds: a body that has not wholly
\* arrived goes on arriving, and a body that has arrived ends (weak fairness
\* of End(c), written out with EndIsDue(c) for ENABLED <<End(c)>>_vars).
\* Nothing makes the transport fail.
FairSpec ==
    /\ Spec
    /\ \A c \in Calls :
        /\ WF_vars(\E n \in ChunkSizes(Len(response[c].body) - offset[c]) :
                        Data(c, n))
        /\ <>[]EndIsDue(c) => []<><<End(c)>>_vars

\* Several calls in flight at once on one wallet, each with its own
\* exchange: call 1 asks for the balance and call 2 for an address, and
\* either is answered with a result, an error or no body.
ConcurrentInvocation ==
    <<[op |-> "getBalance", args |-> <<>>],
      [op |-> "createAddress",
       args |-> <<Num("0"), Str("savings"), Undefined>>]>>

ConcurrentEnvelopes ==
    {Obj(Header \o << <<"result", BalanceResult>> >>),
     Obj(Header \o << <<"error", ErrorObject("-1", "denied")>> >>)}

ConcurrentNext ==
    \E c \in Calls :
        \/ Invoke(c, ConcurrentInvocation[c])
        \/ \E envelope \in ConcurrentEnvelopes :
                Respond(c, Num("200"), envelope, "pretty")
        \/ RespondRaw(c, Num("200"), "")
        \/ \E n \in ChunkSizes(Len(response[c].body) - offset[c]) : Data(c, n)
        \/ End(c)
        \/ ResError(c)
        \/ ReqError(c)

ConcurrentSpec == Init /\ [][ConcurrentNext]_vars

\* The operations invoked with every choice of the arguments that are
\* supplied and left out; the answers are drawn from a small set.
FacadeInvocations ==
    {[op |-> "getBalance", args |-> <<a, b, c, d>>] :
        a \in {Undefined, Num("0")},
        b \in {Undefined, Arr(<<Num("0"), Num("1")>>)},
        c \in {Undefined, Bool(TRUE)},
        d \in {Undefined, Bool(FALSE)}}
    \cup {[op |-> "createAddress", args |-> <<a, b, c>>] :
        a \in {Undefined, Num("0")},
        b \in {Undefined, Str("savings")},
        c \in {Undefined, Num("2"), Big("2")}}
    \cup {[op |-> "labelAddress", args |-> <<a, b>>] :
        a \in {Undefined,
               Obj(<< <<"major", Num("0")>>, <<"minor", Num("1")>> >>)},
        b \in {Undefined, Str("rent"), Null, Str("caf" \o EAcute),
               Str(Omega)}}
    \cup {[op |-> "setDaemon", args |-> <<a, b, c>>] :
        a \in {Undefined, Str("http://127.0.0.1:38081")},
        b \in {Undefined, Bool(TRUE)},
        c \in {Undefined, Str("disabled")}}
    \cup {[op |-> "getTransfers",
           args |-> <<a, b, Undefined, Undefined, Undefined, c, d>>] :
        a \in {Undefined, Bool(TRUE)},
        b \in {Undefined, Bool(FALSE)},
        c \in {Undefined, Bool(TRUE)},
        d \in {Undefined, Num("3000000")}}
    \cup {[op |-> "getHeight", args |-> <<>>]}

FacadeEnvelopes ==
    {Obj(Header \o << <<"result", Obj(<< <<"height", Num("3000000")>> >>)>> >>),
     Obj(Header \o << <<"error", ErrorObject("-1", "denied")>> >>)}

FacadeNext ==
    \E c \in Sequential :
        \/ \E inv \in FacadeInvocations : Invoke(c, inv)
        \/ \E envelope \in FacadeEnvelopes :
                Respond(c, Num("200"), envelope, "pretty")
        \/ RespondRaw(c, Num("500"), "")
        \/ \E n \in ChunkSizes(Len(response[c].body) - offset[c]) : Data(c, n)
        \/ End(c)
        \/ ResError(c)
        \/ ReqError(c)

FacadeSpec == Init /\ [][FacadeNext]_vars

(***************************************************************************)
(* What the claims speak of                                                *)
(***************************************************************************)
\* The exchange of call c ended, and the transport reported no failure.
EndedClean(c) == fired[c] = {"end"}

Status(c) == response[c].statusCode

\* What the server sent under the keys result and error.
SentResult(c) == Get(response[c].envelope, "result")
SentError(c) == Get(response[c].envelope, "error")

\* A number whose literal is digits only.
IsNatLiteral(v) ==
    v.t = "number" /\ \A i \in 1..Len(v.s) : Char(v.s, i) \in Digits

\* The i-th element of what should be an array.
Elem(v, i) == IF v.t = "array" /\ i <= Len(v.m) THEN v.m[i] ELSE Undefined

\* Every field of sent (at any depth) that is a non-negative integer literal
\* is, in got, the BigInt of the same digits.
RECURSIVE IntFieldsAreBigInts(_, _)
IntFieldsAreBigInts(sent, got) ==
    CASE sent.t = "object" ->
            \A i \in 1..Len(sent.m) :
                IF IsNatLiteral(sent.m[i][2])
                THEN Get(got, sent.m[i][1]) = Big(sent.m[i][2].s)
                ELSE IntFieldsAreBigInts(sent.m[i][2], Get(got, sent.m[i][1]))
      [] sent.t = "array" ->
            \A i \in 1..Len(sent.m) :
                IntFieldsAreBigInts(sent.m[i], Elem(got, i))
      [] OTHER -> TRUE

\* Every array element of sent (at any depth) that is a non-negative integer
\* literal is, in got, the BigInt of the same digits.
RECURSIVE IntElementsAreBigInts(_, _)
IntElementsAreBigInts(sent, got) ==
    CASE sent.t = "object" ->
            \A i \in 1..Len(sent.m) :
                IntElementsAreBigInts(sent.m[i][2], Get(got, sent.m[i][1]))
      [] sent.t = "array" ->
            \A i \in 1..Len(sent.m) :
                IF IsNatLiteral(sent.m[i])
                THEN Elem(got, i) = Big(sent.m[i].s)
                ELSE IntElementsAreBigInts(sent.m[i], Elem(got, i))
      [] OTHER -> TRUE

\* Every string-valued field of sent (at any depth) is the same string in
\* got.
RECURSIVE StringFieldsAreKept(_, _)
StringFieldsAreKept(sent, got) ==
    CASE sent.t = "object" ->
            \A i \in 1..Len(sent.m) :
                IF sent.m[i][2].t = "string"
                THEN Get(got, sent.m[i][1]) = sent.m[i][2]
                ELSE StringFieldsAreKept(sent.m[i][2], Get(got, sent.m[i][1]))
      [] sent.t = "array" ->
            \A i \in 1..Len(sent.m) :
                StringFieldsAreKept(sent.m[i], Elem(got, i))
      [] OTHER -> TRUE

\* The body of the balance example, as the specification writes it.
CompactBalanceBody ==
    "{\"jsonrpc\":\"2.0\",\"id\":\"0\",\"result\":{\"balance\":1125125151521,\"unlocked_balance\":1125125151521,\"multisig_import_needed\":false,\"per_subaddress\":[{\"balance\":1125125151521}]}}"

(***************************************************************************)
(* The claims                                                              *)
(***************************************************************************)
\* C1: when the exchange ends with status 200 and the compact balance body,
\* the call resolves with balance and per_subaddress[0].balance equal to the
\* BigInt 1125125151521 and multisig_import_needed equal to false.
C1_CompactBalanceIsBigInt ==
    \A c \in Calls :
        (/\ EndedClean(c)
         /\ Status(c) = Num("200")
         /\ response[c].body = CompactBalanceBody)
        => /\ promise[c].state = "resolved"
           /\ Get(promise[c].value, "balance") = Big("1125125151521")
           /\ Get(Elem(Get(promise[c].value, "per_subaddress"), 1), "balance")
                = Big("1125125151521")
           /\ Get(promise[c].value, "multisig_import_needed") = Bool(FALSE)

\* C2: every non-negative integer literal that is the value of an object
\* field of a 2xx response body, at any depth and in any layout, is in the
\* resolved value a BigInt with the same digits.
C2_IntegerFieldsAreBigInts ==
    \A c \in Calls :
        (promise[c].state = "resolved" /\ promise[c].by = "end")
        => IntFieldsAreBigInts(SentResult(c), promise[c].value)

\* C3: every integer literal that is an element of an array of a 2xx
\* response body is in the resolved value a BigInt equal to the literal.
C3_IntegerElementsAreBigInts ==
    \A c \in Calls :
        (promise[c].state = "resolved" /\ promise[c].by = "end")
        => IntElementsAreBigInts(SentResult(c), promise[c].value)

\* C4: every string-valued field of a 2xx response body is decoded as that
\* same string, also when it holds digits followed by the letter n.
C4_StringFieldsAreKept ==
    \A c \in Calls :
        (promise[c].state = "resolved" /\ promise[c].by = "end")
        => StringFieldsAreKept(SentResult(c), promise[c].value)

\* The value with every BigInt in it written as the number of the same
\* digits.
RECURSIVE AsNumbers(_)
AsNumbers(v) ==
    CASE v.t = "bigint" -> Num(v.s)
      [] v.t = "object" ->
            Obj([i \in 1..Len(v.m) |-> <<v.m[i][1], AsNumbers(v.m[i][2])>>])
      [] v.t = "array" -> Arr([i \in 1..Len(v.m) |-> AsNumbers(v.m[i])])
      [] OTHER -> v

\* The method and the parameter bag of the operation call c invoked.
Invoked(c) == Operation(invocation[c].op, invocation[c].args)

\* C5: a parameter bag that holds a BigInt is serialized into the request
\* body with that value as a bare numeric literal, and the request is sent.
C5_BigIntParametersAreSent ==
    \A c \in Calls :
        (pc[c] # "idle" /\ HoldsBigInt(Invoked(c).params))
        => /\ request[c].path = "/json_rpc"
           /\ request[c].body =
                Payload(Invoked(c).method, AsNumbers(Invoked(c).params)).text

\* A status code from 200 to 299: three digits, the first a 2.
Is2xx(statusCode) ==
    statusCode.t = "number" /\ Len(statusCode.s) = 3 /\ Head(statusCode.s) = "2"

Contains(text, part) ==
    \E i \in 1..(Len(text) - Len(part) + 1) :
        SubSeq(text, i, i + Len(part) - 1) = part

\* C6: when the exchange ends with a status code outside 200..299, or with
\* none, the body is never handed to JSON.parse and the call is rejected;
\* the 'end' handler rejects it with a MoneroRpcError whose message holds
\* the status code.
C6_BadStatusRejectsUnparsed ==
    \A c \in Calls :
        ("end" \in fired[c] /\ ~Is2xx(Status(c)))
        => /\ ~parsed[c]
           /\ promise[c].state = "rejected"
           /\ EndedClean(c) =>
                /\ promise[c].error.name = "MoneroRpcError"
                /\ Contains(promise[c].error.message,
                            IF Status(c).t = "number" THEN Status(c).s
                            ELSE "undefined")

\* A call that ended with status 500 and a body holding a well-formed
\* result was rejected with the status in the message.
C6_Witness ==
    \E c \in Calls :
        /\ EndedClean(c)
        /\ Status(c) = Num("500")
        /\ SentResult(c) = BalanceResult
        /\ ~parsed[c]
        /\ promise[c].state = "rejected"
        /\ promise[c].error.message = "RPC call failed with status code 500"

\* C7: for every 2xx response whose envelope carries an error object with an
\* integer code and a string message, in any layout, the call is rejected
\* with a MoneroRpcError of that code and that message.
C7_ErrorCodeAndMessageSurface ==
    \A c \in Calls :
        (/\ EndedClean(c)
         /\ Is2xx(Status(c))
         /\ Get(SentError(c), "code").t = "number"
         /\ Get(SentError(c), "message").t = "string")
        => /\ promise[c].state = "rejected"
           /\ promise[c].error.name = "MoneroRpcError"
           /\ promise[c].error.code = Get(SentError(c), "code")
           /\ promise[c].error.message = Get(SentError(c), "message").s

\* C8, as claimed: a call whose response envelope carries an error field is
\* never resolved.
C8_ErrorFieldNeverResolves ==
    \A c \in Calls :
        HasKey(response[c].envelope, "error") => promise[c].state # "resolved"

\* C8, amended: a call whose response envelope carries an error field that
\* is not null is never resolved, whatever the status code and also when the
\* envelope carries a result; once the exchange has ended it is rejected.
C8_NonNullErrorNeverResolves ==
    \A c \in Calls :
        (HasKey(response[c].envelope, "error") /\ SentError(c).t # "null")
        => /\ promise[c].state # "resolved"
           /\ "end" \in fired[c] => promise[c].state = "rejected"

\* A 2xx call whose envelope carried a result and an error was rejected by
\* its 'end' handler.
C8_Witness ==
    \E c \in Calls :
        /\ EndedClean(c)
        /\ Is2xx(Status(c))
        /\ HasKey(response[c].envelope, "result")
        /\ SentError(c) = ErrorObject("-1", "denied")
        /\ promise[c].state = "rejected"
        /\ promise[c].error.message = "denied"

\* The envelope of call c carries no result, and no error but null.
CarriesNeither(c) ==
    /\ response[c].envelope.t = "object"
    /\ ~HasKey(response[c].envelope, "result")
    /\ SentError(c).t \in {"undefined", "null"}

\* C9: a call whose 2xx response envelope carries neither result nor error
\* is never resolved, and no call is resolved with undefined.
C9_NeitherNeverResolves ==
    \A c \in Calls :
        /\ (Is2xx(Status(c)) /\ CarriesNeither(c))
                => promise[c].state # "resolved"
        /\ promise[c].state = "resolved" => promise[c].value.t # "undefined"

\* A 2xx call whose envelope carried neither ended: ok(data.result) threw
\* and the call is not resolved.
C9_Witness ==
    \E c \in Calls :
        /\ EndedClean(c)
        /\ Is2xx(Status(c))
        /\ CarriesNeither(c)
        /\ parsed[c]
        /\ uncaught[c] = AssertionError
        /\ promise[c].state # "resolved"

\* The exchange of call c is over with an error of one of the four kinds: a
\* transport error that cut it short, a status outside 2xx, an error
\* object, or an envelope with neither result nor error.
EndedInError(c) ==
    \/ fired[c] # {} /\ "end" \notin fired[c]
    \/ /\ "end" \in fired[c]
       /\ \/ ~Is2xx(Status(c))
          \/ SentError(c).t \notin {"undefined", "null"}
          \/ CarriesNeither(c)

\* C10: once the exchange has ended with an error of any kind, the call is
\* eventually rejected, never pending forever.
C10_EveryErrorKindRejects ==
    \A c \in Calls : EndedInError(c) ~> (promise[c].state = "rejected")

\* C11: a 2xx response whose body is no JSON text makes the call reject
\* with a MoneroRpcError; it neither resolves nor stays unsettled.
C11_MalformedBodyRejects ==
    \A c \in Calls :
        (/\ EndedClean(c)
         /\ Is2xx(Status(c))
         /\ ~ParseText(response[c].body).ok)
        => /\ promise[c].state = "rejected"
           /\ promise[c].error.name = "MoneroRpcError"

\* The failures the transport reports.
TransportFailures == {ConnectionRefused, ConnectionReset}

\* C12: a transport failure that reaches a call not yet settled rejects it
\* with that failure, never with a MoneroRpcError; the rejection stays; and
\* a call resolves only from a body that has wholly arrived.
C12_TransportFailureRejects ==
    /\ [][\A c \in Calls :
            (/\ promise[c].state = "pending"
             /\ fired'[c] # fired[c]
             /\ fired'[c] \ fired[c] \subseteq {"reqError", "resError"})
            => /\ promise'[c].state = "rejected"
               /\ promise'[c].error \in TransportFailures
               /\ promise'[c].error.name # "MoneroRpcError"]_vars
    /\ [][\A c \in Calls :
            promise[c].by \in {"reqError", "resError"}
                => promise'[c] = promise[c]]_vars
    /\ [](\A c \in Calls :
            promise[c].state = "resolved"
                => "end" \in fired[c] /\ offset[c] = Len(response[c].body))

\* The response of a call failed when a part of its body had arrived: the
\* call is rejected with the failure.
C12_Witness ==
    \E c \in Calls :
        /\ fired[c] = {"resError"}
        /\ Is2xx(Status(c))
        /\ offset[c] > 0
        /\ offset[c] < Len(response[c].body)
        /\ rawData[c] # ""
        /\ promise[c].state = "rejected"
        /\ promise[c].error = ConnectionReset

\* C13: every rejection of a call, whatever its cause, is a MoneroRpcError.
C13_EveryRejectionIsStructured ==
    \A c \in Calls :
        promise[c].state = "rejected"
            => promise[c].error.name = "MoneroRpcError"

\* C14: every invocation has issued one request, to the host and the port
\* the wallet was constructed with.
C14_OneRequestPerInvocation ==
    \A c \in Calls :
        pc[c] # "idle"
            => /\ request[c] # NoRequest
               /\ request[c].host = config.host
               /\ request[c].port = config.port

\* C15: a 2xx response whose envelope has a result and no error resolves the
\* call, whatever JSON value the result is.
C15_EveryResultResolves ==
    \A c \in Calls :
        (/\ EndedClean(c)
         /\ Is2xx(Status(c))
         /\ HasKey(response[c].envelope, "result")
         /\ ~HasKey(response[c].envelope, "error"))
        => promise[c].state = "resolved"

\* All that the model holds of call d is left as it is.
Untouched(d) ==
    /\ pc'[d] = pc[d]
    /\ invocation'[d] = invocation[d]
    /\ request'[d] = request[d]
    /\ response'[d] = response[d]
    /\ offset'[d] = offset[d]
    /\ chunks'[d] = chunks[d]
    /\ rawData'[d] = rawData[d]
    /\ fired'[d] = fired[d]
    /\ parsed'[d] = parsed[d]
    /\ uncaught'[d] = uncaught[d]
    /\ promise'[d] = promise[d]

\* What the 'end' handler makes of the response of call c, whole.
OwnEnd(c) == OnEnd(response[c].statusCode, BufferToString(response[c].body))

\* The promise p is settled as the outcome out of an 'end' handler says.
SettledAs(p, out) ==
    /\ p.state = "resolved" => out.kind = "resolve" /\ p.value = out.value
    /\ p.state = "rejected" => out.kind = "reject" /\ p.error = out.error

\* Call c holds and has settled with what its own exchange gave, only.
OwnOutcome(c) ==
    /\ request[c] # NoRequest =>
            request[c].body = RequestPayload(Invoked(c)).text
    /\ rawData[c] = SubSeq(response[c].body, 1, offset[c])
    /\ promise[c].by = "end" => SettledAs(promise[c], OwnEnd(c))
    /\ promise[c].by = "request" => promise[c].error = BigIntTypeError
    /\ promise[c].by \in {"reqError", "resError"} =>
            promise[c].error \in TransportFailures

\* C16: with several calls in flight, in every interleaving of their
\* events, a step of one call leaves every other call and the configuration
\* as they are, and each call settles with the outcome of its own exchange.
C16_CallsAreIndependent ==
    /\ [][/\ config' = config
          /\ \E c \in Calls : \A d \in Calls \ {c} : Untouched(d)]_vars
    /\ [](\A c \in Calls : OwnOutcome(c))

\* Call 1 has resolved with its balance while call 2, answered with another
\* body, has a part of it.
C16_Witness ==
    /\ fired[1] = {"end"}
    /\ promise[1].state = "resolved"
    /\ Get(promise[1].value, "balance") = Big("1125125151521")
    /\ pc[2] = "receiving"
    /\ offset[2] > 0
    /\ offset[2] < Len(response[2].body)
    /\ SentError(2) = ErrorObject("-1", "denied")

\* The names of the remote parameters of an operation, in the order of its
\* arguments, as the wallet RPC documents them.
ParameterNames(op) ==
    CASE op = "getBalance" ->
            <<"account_index", "address_indices", "all_accounts", "strict">>
      [] op = "createAddress" -> <<"account_index", "label", "count">>
      [] op = "labelAddress" -> <<"index", "label">>
      [] op = "setDaemon" ->
            <<"address", "trusted", "ssl_support", "ssl_private_key_path",
              "ssl_certificate_path", "ssl_ca_file",
              "ssl_allowed_fingerprints", "ssl_allow_any_cert", "username",
              "password">>
      [] op = "getTransfers" ->
            <<"in", "out", "pending", "failed", "pool", "filter_by_height",
              "min_height", "max_height", "account_index", "subaddr_indices",
              "all_accounts">>
      [] op = "getHeight" -> <<>>

\* The remote method of an operation.
RemoteMethod(op) ==
    CASE op = "getBalance" -> "get_balance"
      [] op = "createAddress" -> "create_address"
      [] op = "labelAddress" -> "label_address"
      [] op = "setDaemon" -> "set_daemon"
      [] op = "getTransfers" -> "get_transfers"
      [] op = "getHeight" -> "get_height"

\* The members names[i] : args[i], from the i-th on, of the arguments that
\* were supplied.
RECURSIVE Supplied(_, _, _)
Supplied(names, args, i) ==
    IF i > Len(names) \/ i > Len(args) THEN <<>>
    ELSE (IF args[i].t = "undefined" THEN <<>> ELSE << <<names[i], args[i]>> >>)
            \o Supplied(names, args, i + 1)

\* The keys of an object, in their order.
Keys(obj) == [i \in 1..Len(obj.m) |-> obj.m[i][1]]

\* What reading the request body of a call as JSON gives.
SentBody(c) == ParseText(request[c].body)

\* The body read as JSON carries exactly these members as its params.
CarriesParams(sent, members) ==
    /\ sent.ok
    /\ Get(sent.v, "params") = Obj(members)

\* C17: the params object of a request body holds exactly the keys whose
\* values the caller supplied, with those values, and nothing for the
\* others.
C17_UnsetParametersAreLeftOut ==
    \A c \in Calls :
        request[c] # NoRequest
            => CarriesParams(SentBody(c),
                    Supplied(ParameterNames(invocation[c].op),
                             invocation[c].args, 1))

\* getBalance was invoked with its second and fourth argument only, and the
\* body sent holds those two.
C17_Witness ==
    \E c \in Calls :
        /\ invocation[c].op = "getBalance"
        /\ invocation[c].args =
            <<Undefined, Arr(<<Num("0"), Num("1")>>), Undefined, Bool(FALSE)>>
        /\ request[c].body =
            "{\"jsonrpc\":\"2.0\",\"id\":\"0\",\"method\":\"get_balance\","
                \o "\"params\":{\"address_indices\":[0,1],\"strict\":false}}"

\* The body read as JSON is a call of this remote method.
CallsMethod(sent, method) ==
    /\ sent.ok
    /\ Keys(sent.v) = <<"jsonrpc", "id", "method", "params">>
    /\ Get(sent.v, "jsonrpc") = Str("2.0")
    /\ Get(sent.v, "id") = Str("0")
    /\ Get(sent.v, "method") = Str(method)

\* C18: an operation hands the dispatcher its remote method and its
\* arguments under the remote parameter names, once, and settles as the
\* dispatcher does: with the result or the error of the 'end' handler, with
\* the transport's failure, or with what JSON.stringify threw.
C18_OperationsPassThrough ==
    \A c \in Calls :
        /\ request[c] # NoRequest =>
            /\ CallsMethod(SentBody(c), RemoteMethod(invocation[c].op))
            /\ Keys(Get(SentBody(c).v, "params")) =
                    Keys(Obj(Supplied(ParameterNames(invocation[c].op),
                                      invocation[c].args, 1)))
        /\ (pc[c] # "idle" /\ request[c] = NoRequest) =>
                promise[c].state = "rejected" /\ promise[c].by = "request"
        /\ promise[c].by = "end" => SettledAs(promise[c], OwnEnd(c))
        /\ promise[c].by \in {"reqError", "resError"} =>
                promise[c].error \in TransportFailures

\* getTransfers(true, undefined, ..., 3000000) was sent with its first
\* argument under the key "in", and has resolved with the result.
C18_Witness ==
    \E c \in Calls :
        /\ invocation[c].op = "getTransfers"
        /\ request[c].body =
            "{\"jsonrpc\":\"2.0\",\"id\":\"0\",\"method\":\"get_transfers\","
                \o "\"params\":{\"in\":true,\"min_height\":3000000}}"
        /\ promise[c].state = "resolved"
        /\ promise[c].value = Obj(<< <<"height", Big("3000000")>> >>)

\* A text that is digits followed by the letter n, whole.
IsMarked(text) ==
    /\ Len(text) >= 2
    /\ Char(text, Len(text)) = "n"
    /\ \A i \in 1..(Len(text) - 1) : Char(text, i) \in Digits

\* Every string of sent (at any depth) that is digits and the letter n is
\* the same string in got.
RECURSIVE MarkedStringsAreKept(_, _)
MarkedStringsAreKept(sent, got) ==
    CASE sent.t = "string" -> IsMarked(sent.s) => got = sent
      [] sent.t = "object" ->
            \A i \in 1..Len(sent.m) :
                MarkedStringsAreKept(sent.m[i][2], Get(got, sent.m[i][1]))
      [] sent.t = "array" ->
            \A i \in 1..Len(sent.m) :
                MarkedStringsAreKept(sent.m[i], Elem(got, i))
      [] OTHER -> TRUE

\* C19: a string of the response body whose whole content is digits
\* followed by the letter n is decoded as that string.
C19_MarkedStringsAreKept ==
    \A c \in Calls :
        (promise[c].state = "resolved" /\ promise[c].by = "end")
        => MarkedStringsAreKept(SentResult(c), promise[c].value)

\* A number written with a fraction or an exponent.
IsFloatLiteral(v) ==
    v.t = "number" /\ \E i \in 1..Len(v.s) : Char(v.s, i) \in {".", "e", "E"}

\* Every boolean and every number with a fraction or an exponent of plain
\* (at any depth) is the same value in got.
RECURSIVE FloatsAndBooleansAreKept(_, _)
FloatsAndBooleansAreKept(plain, got) ==
    CASE plain.t = "boolean" \/ IsFloatLiteral(plain) -> got = plain
      [] plain.t = "object" ->
            \A i \in 1..Len(plain.m) :
                FloatsAndBooleansAreKept(plain.m[i][2],
                                         Get(got, plain.m[i][1]))
      [] plain.t = "array" ->
            \A i \in 1..Len(plain.m) :
                FloatsAndBooleansAreKept(plain.m[i], Elem(got, i))
      [] OTHER -> TRUE

\* What JSON.parse alone gives of a text is, where it is JSON, decoded with
\* the same booleans and the same numbers with a fraction or an exponent.
DecodesAs(plain, decoded) ==
    plain.ok => decoded.ok /\ FloatsAndBooleansAreKept(plain.v, decoded.v)

\* C20: the booleans and the numbers with a fraction or an exponent of a
\* response body decode to what JSON.parse alone gives of that body: the
\* prepass rewrites none of them and no run of digits inside them.
C20_FloatsAndBooleansAreKept ==
    \A c \in Calls :
        parsed[c] => DecodesAs(ParseText(rawData[c]), Decode(rawData[c]))

\* A call was answered, in the layout the prepass rewrites, with integers,
\* booleans and numbers with a fraction and an exponent: it resolved with
\* the integer as a BigInt and the others as they were.
C20_Witness ==
    \E c \in Calls :
        /\ EndedClean(c)
        /\ SentResult(c) = ReportResult
        /\ promise[c].state = "resolved"
        /\ Get(promise[c].value, "height") = Big("7")
        /\ Get(promise[c].value, "rate") = Num("1.5")
        /\ Get(promise[c].value, "fee") = Num("2.5e-3")
        /\ Get(promise[c].value, "exact") = Bool(TRUE)
        /\ Get(promise[c].value, "last") = Num("10.0")

\* The 'end' handler whose outcome is out left the promise as p and, when
\* it threw, the exception as thrown.
EndGave(out, p, thrown) ==
    /\ out.kind = "resolve" => p.state = "resolved" /\ p.value = out.value
    /\ out.kind = "reject" => p.state = "rejected" /\ p.error = out.error
    /\ out.kind = "throw" => p.state = "pending" /\ thrown = out.error

\* C21: nothing is parsed, resolved or rejected as a protocol error before
\* 'end'; every chunk is put, as text, after those that arrived before it;
\* and what 'end' decodes is the text accumulated until then.
C21_DecodedAfterEnd ==
    /\ [](\A c \in Calls :
            (\/ parsed[c]
             \/ promise[c].state = "resolved"
             \/ promise[c].error.name = "MoneroRpcError")
            => "end" \in fired[c])
    /\ [][\A c \in Calls :
            offset'[c] # offset[c]
                => rawData'[c] =
                    rawData[c] \o BufferToString(
                        SubSeq(response[c].body, offset[c] + 1, offset'[c]))]_vars
    /\ [][\A c \in Calls :
            ("end" \in fired'[c] /\ "end" \notin fired[c]
                /\ promise[c].state = "pending")
            => EndGave(OnEnd(response[c].statusCode, rawData[c]),
                       promise'[c], uncaught'[c])]_vars

\* A body arrived in two chunks and then ended: the call resolved with what
\* the two, one after the other, decode to.
C21_Witness ==
    \E c \in Calls :
        /\ EndedClean(c)
        /\ chunks[c] = 2
        /\ SentResult(c) = BalanceResult
        /\ rawData[c] = response[c].body
        /\ parsed[c]
        /\ promise[c].state = "resolved"
        /\ Get(promise[c].value, "multisig_import_needed") = Bool(FALSE)

\* C22: the Content-Length header of a request is the number of bytes
\* written as its body.
C22_ContentLengthIsBytesWritten ==
    \A c \in Calls :
        request[c] # NoRequest
            => request[c].contentLength = Len(request[c].written)

\* What a reader of the bytes written as the body of a call finds as JSON.
ReceivedBody(c) == ParseText(BufferToString(request[c].written))

\* C23: a request is a POST to /json_rpc whose body, as written, is the
\* envelope with jsonrpc "2.0", id "0", the method given and the parameters
\* given.
C23_EnvelopeIsTransmittedUnaltered ==
    \A c \in Calls :
        request[c] # NoRequest =>
            /\ request[c].method = "POST"
            /\ request[c].path = "/json_rpc"
            /\ ReceivedBody(c).ok
            /\ Keys(ReceivedBody(c).v) = <<"jsonrpc", "id", "method", "params">>
            /\ Get(ReceivedBody(c).v, "jsonrpc") = Str("2.0")
            /\ Get(ReceivedBody(c).v, "id") = Str("0")
            /\ Get(ReceivedBody(c).v, "method") = Str(Invoked(c).method)
            /\ Get(ReceivedBody(c).v, "params") =
                    Obj(Supplied(ParameterNames(invocation[c].op),
                                 invocation[c].args, 1))

\* C24: an error made by the structured-error constructor has a message
\* that is not empty.
C24_MessageIsNeverEmpty ==
    \A c \in Calls :
        promise[c].error.name = "MoneroRpcError"
            => promise[c].error.message # ""

\* What the 'end' handler of a call gave the constructor: the error field of
\* the decoded body.
ErrorGiven(c) == Get(Decode(rawData[c]).v, "error")

\* The variant of a constructor input.
IsText(input) == input.t = "string"
CarriesMessage(input) ==
    /\ input.t = "object"
    /\ \E i \in 1..Len(input.m) :
            input.m[i][1] = "message" /\ input.m[i][2].t = "string"
CarriesCode(input) ==
    /\ input.t = "object"
    /\ \E i \in 1..Len(input.m) :
            input.m[i][1] = "code" /\ input.m[i][2].t = "number"

\* The fields the five variants fix.
BuiltAsItsVariant(input, error) ==
    /\ IsText(input) =>
            /\ error.message = input.s
            /\ error.code = Undefined
            /\ error.errorMessage = Undefined
    /\ (CarriesMessage(input) /\ ~CarriesCode(input)) =>
            /\ error.message = Get(input, "message").s
            /\ error.errorMessage = Get(input, "message")
            /\ error.code = Undefined
    /\ (CarriesCode(input) /\ ~CarriesMessage(input)) =>
            /\ error.message = "Code " \o Get(input, "code").s
            /\ error.code = Get(input, "code")
    /\ (CarriesCode(input) /\ CarriesMessage(input)) =>
            /\ error.message = Get(input, "message").s
            /\ error.errorMessage = Get(input, "message")
            /\ error.code = Get(input, "code")
    /\ ~(IsText(input) \/ CarriesMessage(input) \/ CarriesCode(input)) =>
            /\ error.message = "Unknown error"
            /\ error.code = Undefined

\* C25: the error a call is rejected with has the fields its variant fixes:
\* string, object with message, object with code, object with both, or
\* anything else.
C25_ErrorVariants ==
    \A c \in Calls :
        (promise[c].by = "end" /\ promise[c].state = "rejected") =>
            BuiltAsItsVariant(
                IF Is2xx(Status(c)) THEN ErrorGiven(c)
                ELSE Str("RPC call failed with status code "
                            \o (IF Status(c).t = "undefined" THEN "undefined"
                                ELSE Status(c).s)),
                promise[c].error)

\* A call has been rejected from an object with a message and a numeric
\* code.
C25_Witness ==
    \E c \in Calls :
        /\ promise[c].by = "end"
        /\ Is2xx(Status(c))
        /\ ErrorGiven(c) = ErrorObject("-1", "denied")
        /\ promise[c].error =
            [name |-> "MoneroRpcError", message |-> "denied",
             code |-> Num("-1"), errorMessage |-> Str("denied")]

\* The wire marker form of an arbitrary-precision integer, as a JSON text:
\* its digits and the letter n, in quotes.
MarkerForm(v) == "\"" \o v.s \o "n\""

\* Every arbitrary-precision integer of got (at any depth), written in the
\* marker form and decoded, is itself.
RECURSIVE IntegersDecodeBack(_)
IntegersDecodeBack(got) ==
    CASE got.t = "bigint" ->
            Decode(MarkerForm(got)).ok /\ Decode(MarkerForm(got)).v = got
      [] got.t = "object" ->
            \A i \in 1..Len(got.m) : IntegersDecodeBack(got.m[i][2])
      [] got.t = "array" ->
            \A i \in 1..Len(got.m) : IntegersDecodeBack(got.m[i])
      [] OTHER -> TRUE

\* C26: an arbitrary-precision integer obtained by decoding a response,
\* written back as its digits followed by n and decoded again, is the same
\* integer.
C26_DecodingIsIdempotent ==
    \A c \in Calls :
        promise[c].state = "resolved" => IntegersDecodeBack(promise[c].value)

\* A call resolved with 7 decoded from the body's literal 7 and from its
\* string "007n"; that 7, and an integer of thirteen digits decoded from a
\* literal, decode back to themselves.
C26_Witness ==
    /\ \E c \in Calls :
        /\ promise[c].state = "resolved"
        /\ promise[c].value.t = "object"
        /\ Get(promise[c].value, "serial") = Big("7")
        /\ Get(promise[c].value, "height") = Big("7")
    /\ Decode(MarkerForm(Big("7"))).v = Big("7")
    /\ Decode("{\n  \"balance\": 1125125151521\n}").v
            = Obj(<< <<"balance", Big("1125125151521")>> >>)
    /\ Decode(MarkerForm(Big("1125125151521"))).v = Big("1125125151521")

IsNegativeLiteral(v) ==
    /\ v.t = "number"
    /\ Len(v.s) >= 2
    /\ Char(v.s, 1) = "-"
    /\ \A i \in 2..Len(v.s) : Char(v.s, i) \in Digits

\* Every negative integer of sent (at any depth) is the same number in got.
RECURSIVE NegativesAreKept(_, _)
NegativesAreKept(sent, got) ==
    CASE sent.t = "number" -> IsNegativeLiteral(sent) => got = sent
      [] sent.t = "object" ->
            \A i \in 1..Len(sent.m) :
                NegativesAreKept(sent.m[i][2], Get(got, sent.m[i][1]))
      [] sent.t = "array" ->
            \A i \in 1..Len(sent.m) :
                NegativesAreKept(sent.m[i], Elem(got, i))
      [] OTHER -> TRUE

\* C28: a negative integer of a response body, in a result or as the code
\* of an error, is decoded as the same number: a Number with the sign and
\* the magnitude it was written with.
C28_NegativesAreKept ==
    \A c \in Calls :
        /\ (promise[c].state = "resolved" /\ promise[c].by = "end")
                => NegativesAreKept(SentResult(c), promise[c].value)
        /\ (promise[c].state = "rejected" /\ promise[c].by = "end"
                /\ Is2xx(Status(c)) /\ SentError(c).t = "object")
                => NegativesAreKept(Get(SentError(c), "code"),
                                    promise[c].error.code)

\* C29: a call whose response ended without a transport failure is left as
\* the 'end' handler leaves it on the status code and the whole body decoded
\* at once, however the body was cut into chunks.
C29_OutcomeIgnoresChunking ==
    \A c \in Calls :
        EndedClean(c) => EndGave(OwnEnd(c), promise[c], uncaught[c])

====
